---- MODULE Spec2Model ----
(***************************************************************************)
(* A model of app/plugin/grist-plugin-api.ts: the widget side of the       *)
(* Grist plugin API.  The module state (_readyCalled, _tableId,            *)
(* _initialization, _mappingsCache, _activeRefreshReq, _columnsToMap), the *)
(* message listeners installed by ready(), onRecord() and onRecords(), the *)
(* single-flight mapping refresh of getMappingsIfChanged() and the pure    *)
(* record transformation mapColumnNames() / mapColumnNamesBack().          *)
(*                                                                         *)
(* Scheduling is that of a JavaScript event loop: a task (the delivery of  *)
(* one inbound message or of one reply to a remote call) runs only when    *)
(* the microtask queue is empty, and every continuation of an await or of  *)
(* a promise reaction is one job of the FIFO microtask queue.              *)
(***************************************************************************)
EXTENDS Integers, Sequences, FiniteSets, TLC

\* ------------------------------------------------------------------------
\* Bounds of the model.
MaxHandlers == 2
MaxCalls == 2
MaxReadyCalls == 2
MaxSeries == 2
MaxTraffic == 2

\* ------------------------------------------------------------------------
\* JavaScript values, tagged so that values of different types compare.
Undef == [t |-> "undefined"]
Null == [t |-> "null"]
Str(s) == [t |-> "str", s |-> s]
Num(n) == [t |-> "num", n |-> n]
Bool(b) == [t |-> "bool", b |-> b]
Arr(a) == [t |-> "arr", a |-> a]
Obj(f) == [t |-> "obj", f |-> f]
Throw == [t |-> "throw"]

\* JavaScript truthiness of a value.
Truthy(v) ==
  CASE v.t = "undefined" -> FALSE
    [] v.t = "null" -> FALSE
    [] v.t = "str" -> v.s # ""
    [] v.t = "num" -> v.n # 0
    [] v.t = "bool" -> v.b
    [] OTHER -> TRUE

\* The empty object {} and an object with one more property written.
EmptyObj == Obj(<<>>)
Put(o, k, v) == Obj([x \in DOMAIN o.f \cup {k} |-> IF x = k THEN v ELSE o.f[x]])
\* from[k]: reading a property; undefined when absent.  Reading a property
\* of null or undefined is a TypeError, which the callers test for.
Get(o, k) == IF o.t = "obj" /\ k \in DOMAIN o.f THEN o.f[k] ELSE Undef

VARIABLES
  readyCalled,        \* _readyCalled
  tableId,            \* _tableId
  initialized,        \* whether the promise _initialization is resolved
  mappingsCache,      \* _mappingsCache
  activeRefreshReq,   \* _activeRefreshReq: 0 for null, else the id of the promise
  columnsToMap,       \* _columnsToMap
  bindingListeners,   \* number of binding listeners ready() attached
  recordListener,     \* whether onRecord() registered its listener
  recordsListener,    \* whether onRecords() registered its listener
  newRecordListener,  \* whether onNewRecord() registered its listener
  optionsListener,    \* whether onOptions() registered its listener
  dispatched,         \* the callbacks the last delivery invoked before it returned:
                      \* onNewRecord's, and the arguments of onOptions'
  readyPc,            \* position of the async block of ready()
  readySettings,      \* the settings captured by the async block of ready()
  editOptionsFuncs,   \* number of rpc.registerFunc('editOptions') calls
  processIncoming,    \* number of rpc.processIncoming() calls
  readyMessages,      \* number of rpc.sendReadyMessage() calls
  configureCalls,     \* the options of every sectionApi.configure() call, in order
  configureErrors,    \* number of configure failures logged by console.error
  microtasks,         \* the microtask queue
  handlers,           \* the onRecord/onRecords listener invocations that passed their guard
  refreshes,          \* the promises stored in _activeRefreshReq, by id
  calls,              \* the getSelectedTableId() invocations (early: made before the
                      \* binding; bound: history, _tableId when the invocation resumed)
  readyCalls,         \* history: number of ready() invocations
  setInitializedCalls,\* history: number of _setInitialized() invocations
  firstTableId,       \* history: the first identifier bound
  rebound,            \* history: whether _tableId was assigned more than once
  firstSettings,      \* history: the settings of the first ready() invocation
  earlyMessage,       \* history: a message with a tableId was delivered before ready()
  transport,          \* the host signals and the hooks the module installed at load
  mapIn,              \* mapColumnNames scenario: data, options, position
  mapOut              \* mapColumnNames scenario: the results

handshakeVars == <<readyCalled, tableId, initialized, bindingListeners, firstTableId,
                   setInitializedCalls, rebound, earlyMessage>>
readyVars == <<readyPc, readySettings, editOptionsFuncs, processIncoming, readyMessages,
               configureCalls, configureErrors, columnsToMap>>
cacheVars == <<mappingsCache, activeRefreshReq, refreshes>>
mapVars == <<mapIn, mapOut>>
\* What the handshake and the dispatcher never touch.
asideVars == <<mapIn, mapOut, transport>>
\* What only the delivery of a message and the on...() registrations change.
listenerVars == <<recordListener, recordsListener, newRecordListener, optionsListener>>
\* Everything but the transport and the mapColumnNames scenario.
coreVars == <<readyCalled, tableId, initialized, mappingsCache, activeRefreshReq,
              columnsToMap, bindingListeners, listenerVars, dispatched, readyPc,
              readySettings, editOptionsFuncs, processIncoming, readyMessages,
              configureCalls, configureErrors, microtasks, handlers, refreshes, calls,
              readyCalls, setInitializedCalls, firstTableId, rebound, firstSettings,
              earlyMessage>>
vars == <<readyCalled, tableId, initialized, mappingsCache, activeRefreshReq, columnsToMap,
          bindingListeners, recordListener, recordsListener, newRecordListener,
          optionsListener, dispatched, readyPc, readySettings,
          editOptionsFuncs, processIncoming, readyMessages, configureCalls, configureErrors,
          microtasks, handlers, refreshes, calls, readyCalls, setInitializedCalls,
          firstTableId, rebound, firstSettings, earlyMessage, transport, mapIn, mapOut>>

\* ------------------------------------------------------------------------
\* Inputs.

\* Column descriptors of a ColumnsToMap: a bare name, or {name, optional}.
ColName(n) == Str(n)
ColDesc(n, opt) == [t |-> "col", name |-> n, optional |-> opt]

\* The columns of the spec's scenarios: ["Name", {name: "Email", optional: true}].
ScenarioColumns == <<ColName("Name"), ColDesc("Email", TRUE)>>

\* What ready() may be given: nothing, or a ReadyPayload.
NoSettings == [t |-> "undefined"]
Payload(cols, edit) == [t |-> "obj", columns |-> cols, onEditOptions |-> edit]
ReadySettings ==
  {NoSettings, Payload(Undef, FALSE), Payload(Arr(ScenarioColumns), TRUE)}

\* What sectionApi.mappings() may resolve with.
HostMappings ==
  {Null, Obj([Name |-> Str("B"), Email |-> Null]), Obj([Name |-> Str("C1"), Email |-> Str("B")])}

\* Inbound messages: the fields the listeners read.
TableIds == {Undef, Str(""), Str("T1"), Str("T2")}
RowIds == {Undef, Str("new"), Num(1)}
MsgSettings == {Undef, Obj([accessLevel |-> Str("full")])}
MsgOptions == {Undef, Obj([color |-> Str("red")])}
Messages ==
  [tableId : TableIds, rowId : RowIds, dataChange : BOOLEAN, mappingsChange : BOOLEAN,
   settings : MsgSettings, options : MsgOptions]

\* ------------------------------------------------------------------------
\* The microtask queue.
Job(j, id, v) == [job |-> j, id |-> id, val |-> v]
Idle == microtasks = <<>>
HeadJob(j) == microtasks # <<>> /\ Head(microtasks).job = j

TypeOK ==
  /\ readyCalled \in BOOLEAN
  /\ initialized \in BOOLEAN
  /\ activeRefreshReq \in 0..Len(refreshes)
  /\ Len(handlers) <= MaxHandlers + 1
  /\ Len(calls) <= MaxCalls + 1

\* ------------------------------------------------------------------------
\* Transport detection: the top level of the module, lines 445-478.

\* The host signals: typeof window, preloadWindow.isRunningUnderElectron,
\* typeof process, typeof process.send.
HostSignals ==
  [window : BOOLEAN, marker : {Undef, Bool(FALSE), Bool(TRUE)}, process : BOOLEAN,
   send : BOOLEAN]
\* A plain browser frame.
GenericWindow == [window |-> TRUE, marker |-> Undef, process |-> FALSE, send |-> FALSE]

\* The state of the transport before the top level has run.
Undetected(env) ==
  [env |-> env, sender |-> "unset", setSendCalls |-> 0, receiver |-> "none",
   printFunc |-> FALSE, exitOnDisconnect |-> FALSE, sent |-> 0, dropped |-> 0,
   received |-> 0, exited |-> FALSE]

\* if (typeof window !== 'undefined')
IsWindow(env) == env.window
\* if (preloadWindow.isRunningUnderElectron)
IsEmbedded(env) == Truthy(env.marker)
\* else if (typeof process === 'undefined')
IsWorker_noSend(env) == ~env.send
IsWorker(env) == ~env.process
\* else if (typeof process.send !== 'undefined')
IsSubprocess(env) == env.send

\* The hooks that lines 445-478 install in the environment env.
Detected(env) ==
  LET t == Undetected(env) IN
  IF IsWindow(env)
    THEN IF IsEmbedded(env)
      THEN [t EXCEPT !.sender = "sendToHost", !.setSendCalls = @ + 1,
                     !.receiver = "onGristMessage", !.printFunc = TRUE]
      ELSE [t EXCEPT !.sender = "parent.postMessage", !.setSendCalls = @ + 1,
                     !.receiver = "window.onmessage", !.printFunc = TRUE]
  ELSE IF IsWorker(env)
    THEN [t EXCEPT !.receiver = "self.onmessage", !.sender = "self.postMessage",
                   !.setSendCalls = @ + 1]
  ELSE IF IsSubprocess(env)
    THEN [t EXCEPT !.sender = "process.send", !.setSendCalls = @ + 1,
                   !.receiver = "process.on", !.exitOnDisconnect = TRUE]
  ELSE [t EXCEPT !.sender = "noop", !.setSendCalls = @ + 1]

\* The top level of the module runs.
Detect ==
  /\ transport.sender = "unset"
  /\ transport' = Detected(transport.env)
  /\ UNCHANGED <<coreVars, mapVars>>

\* The RPC channel sends a message out through the installed sender; the
\* no-op sender returns without sending.
SendMessage ==
  /\ transport.sender # "unset"
  /\ ~transport.exited
  /\ transport.sent + transport.dropped < MaxTraffic
  /\ transport' = IF transport.sender = "noop"
                    THEN [transport EXCEPT !.dropped = @ + 1]
                    ELSE [transport EXCEPT !.sent = @ + 1]
  /\ UNCHANGED <<coreVars, mapVars>>

\* The host delivers a message to the installed hook: rpc.receiveMessage.
HostMessage ==
  /\ transport.receiver # "none"
  /\ ~transport.exited
  /\ transport.received < MaxTraffic
  /\ transport' = [transport EXCEPT !.received = @ + 1]
  /\ UNCHANGED <<coreVars, mapVars>>

\* process.on('disconnect', () => { process.exit(0); })
Disconnect ==
  /\ transport.exitOnDisconnect
  /\ ~transport.exited
  /\ transport' = [transport EXCEPT !.exited = TRUE]
  /\ UNCHANGED <<coreVars, mapVars>>

\* ------------------------------------------------------------------------
\* The callbacks of a delivery that invoked none.
NoneDispatched == [newRecord |-> FALSE, options |-> Undef]

InitState ==
  /\ readyCalled = FALSE
  /\ tableId = Undef
  /\ initialized = FALSE
  /\ mappingsCache = Undef
  /\ activeRefreshReq = 0
  /\ columnsToMap = Undef
  /\ bindingListeners = 0
  /\ recordListener = FALSE
  /\ recordsListener = FALSE
  /\ newRecordListener = FALSE
  /\ optionsListener = FALSE
  /\ dispatched = NoneDispatched
  /\ readyPc = "none"
  /\ readySettings = NoSettings
  /\ editOptionsFuncs = 0
  /\ processIncoming = 0
  /\ readyMessages = 0
  /\ configureCalls = <<>>
  /\ configureErrors = 0
  /\ microtasks = <<>>
  /\ handlers = <<>>
  /\ refreshes = <<>>
  /\ calls = <<>>
  /\ readyCalls = 0
  /\ setInitializedCalls = 0
  /\ firstTableId = Undef
  /\ rebound = FALSE
  /\ firstSettings = NoSettings
  /\ earlyMessage = FALSE

\* The module loaded in a plain browser frame.
InitCore ==
  /\ InitState
  /\ transport = Detected(GenericWindow)

Init ==
  /\ InitCore
  /\ mapIn = Undef
  /\ mapOut = Undef

\* ------------------------------------------------------------------------
\* ready(): lines 411-438.

\* if (_readyCalled) { return; }
ReadyGuard_noGuard == FALSE
ReadyGuard == readyCalled

\* The options of the configure request: the settings with onEditOptions
\* deleted and hasCustomOptions: Boolean(settings.onEditOptions) added.
ConfigureOptions(s) == [columns |-> s.columns, hasCustomOptions |-> s.onEditOptions]

\* The synchronous part of ready(settings).
Ready(s) ==
  /\ readyCalls < MaxReadyCalls
  /\ readyCalls' = readyCalls + 1
  /\ firstSettings' = IF readyCalls = 0 THEN s ELSE firstSettings
  /\ IF ReadyGuard
       THEN UNCHANGED <<readyCalled, editOptionsFuncs, bindingListeners, processIncoming,
                        readyMessages, readySettings, readyPc>>
       ELSE /\ readyCalled' = TRUE
            /\ editOptionsFuncs' =
                 IF Truthy(s) /\ s.onEditOptions THEN editOptionsFuncs + 1 ELSE editOptionsFuncs
            /\ bindingListeners' = bindingListeners + 1
            /\ processIncoming' = processIncoming + 1
            /\ readyMessages' = readyMessages + 1
            /\ readySettings' = s
            /\ readyPc' = "awaitReady"
  /\ UNCHANGED <<tableId, initialized, firstTableId, setInitializedCalls, rebound, earlyMessage,
                 configureCalls, configureErrors, columnsToMap, cacheVars, asideVars,
                 listenerVars, dispatched, microtasks, handlers, calls>>

\* The async block after `await rpc.sendReadyMessage()` resolved.
ReadyAnnounced ==
  /\ readyPc = "awaitReady"
  /\ IF Truthy(readySettings)
       THEN /\ columnsToMap' = readySettings.columns
            /\ configureCalls' = Append(configureCalls, ConfigureOptions(readySettings))
            /\ readyPc' = "awaitConfigure"
       ELSE /\ readyPc' = "done"
            /\ UNCHANGED <<columnsToMap, configureCalls>>
  /\ UNCHANGED <<handshakeVars, readySettings, editOptionsFuncs, processIncoming,
                 readyMessages, configureErrors, cacheVars, asideVars, listenerVars,
                 dispatched, microtasks, handlers, calls, readyCalls, firstSettings>>

\* `await rpc.sendReadyMessage()` rejected: the async block ends there.
ReadyAnnounceFailed ==
  /\ readyPc = "awaitReady"
  /\ readyPc' = "failed"
  /\ UNCHANGED <<handshakeVars, readySettings, editOptionsFuncs, processIncoming,
                 readyMessages, configureCalls, configureErrors, columnsToMap, cacheVars,
                 asideVars, listenerVars, dispatched, microtasks, handlers, calls,
                 readyCalls, firstSettings>>

\* Where the async block of ready() ends after the configure request
\* settled: .catch turns a rejection into a fulfilment.
ConfigureEnd_uncaught(ok) == IF ok THEN "done" ELSE "failed"
ConfigureEnd(ok) == "done"

\* The reply to sectionApi.configure(options): .catch(err => console.error(err)).
ConfigureSettled(ok) ==
  /\ Idle
  /\ readyPc = "awaitConfigure"
  /\ readyPc' = ConfigureEnd(ok)
  /\ configureErrors' = IF ok THEN configureErrors ELSE configureErrors + 1
  /\ UNCHANGED <<handshakeVars, readySettings, editOptionsFuncs, processIncoming,
                 readyMessages, configureCalls, columnsToMap, cacheVars, asideVars,
                 listenerVars, dispatched, microtasks, handlers, calls, readyCalls, firstSettings>>

\* ------------------------------------------------------------------------
\* getSelectedTableId(): lines 167-170.

\* Whether `await _initialization` finds the promise unresolved.
InitializationPending_noWait == FALSE
InitializationPending == ~initialized

\* return _tableId!
SelectedTableId == tableId

\* The call, up to `await _initialization`.
GetSelectedTableId ==
  /\ Len(calls) < MaxCalls
  /\ LET c == Len(calls) + 1 IN
     IF InitializationPending
       THEN /\ calls' = Append(calls, [pc |-> "waiting", ret |-> Undef, early |-> ~initialized,
                                      bound |-> Undef])
            /\ UNCHANGED microtasks
       ELSE /\ calls' = Append(calls, [pc |-> "queued", ret |-> Undef, early |-> ~initialized,
                                      bound |-> Undef])
            /\ microtasks' = Append(microtasks, Job("gstResume", c, Undef))
  /\ UNCHANGED <<handshakeVars, readyVars, cacheVars, asideVars, listenerVars,
                 dispatched, handlers, readyCalls, firstSettings>>

\* The continuation of `await _initialization`.
GstResume ==
  /\ HeadJob("gstResume")
  /\ LET c == Head(microtasks).id IN
     calls' = [calls EXCEPT ![c] = [@ EXCEPT !.pc = "done", !.ret = SelectedTableId,
                                             !.bound = tableId]]
  /\ microtasks' = Tail(microtasks)
  /\ UNCHANGED <<handshakeVars, readyVars, cacheVars, asideVars, listenerVars,
                 dispatched, handlers, readyCalls, firstSettings>>

\* ------------------------------------------------------------------------
\* onRecord(), onRecords(): the registration of the listeners.
OnRecord ==
  /\ ~recordListener
  /\ recordListener' = TRUE
  /\ UNCHANGED <<handshakeVars, readyVars, cacheVars, asideVars, recordsListener,
                 newRecordListener, optionsListener, dispatched, microtasks,
                 handlers, calls, readyCalls, firstSettings>>

OnRecords ==
  /\ ~recordsListener
  /\ recordsListener' = TRUE
  /\ UNCHANGED <<handshakeVars, readyVars, cacheVars, asideVars, recordListener,
                 newRecordListener, optionsListener, dispatched, microtasks,
                 handlers, calls, readyCalls, firstSettings>>

OnNewRecord ==
  /\ ~newRecordListener
  /\ newRecordListener' = TRUE
  /\ UNCHANGED <<handshakeVars, readyVars, cacheVars, asideVars, recordListener,
                 recordsListener, optionsListener, dispatched, microtasks,
                 handlers, calls, readyCalls, firstSettings>>

OnOptions ==
  /\ ~optionsListener
  /\ optionsListener' = TRUE
  /\ UNCHANGED <<handshakeVars, readyVars, cacheVars, asideVars, recordListener,
                 recordsListener, newRecordListener, dispatched, microtasks,
                 handlers, calls, readyCalls, firstSettings>>

\* ------------------------------------------------------------------------
\* The delivery of one inbound message to the 'message' listeners.

\* The binding listener of ready(), lines 419-424:
\* if (msg.tableId && msg.tableId !== _tableId)
Binds_unattached(msg) == Truthy(msg.tableId) /\ msg.tableId # tableId
Binds(msg) == bindingListeners > 0 /\ Truthy(msg.tableId) /\ msg.tableId # tableId
\* if (!_tableId) { _setInitialized(); }
SignalNeeded_always == TRUE
SignalNeeded == ~Truthy(tableId)

\* The guard of the onRecord listener, line 313.
RecordGuard_anyRow(msg) == recordListener /\ Truthy(msg.tableId) /\ Truthy(msg.rowId)
RecordGuard(msg) ==
  recordListener /\ Truthy(msg.tableId) /\ Truthy(msg.rowId) /\ msg.rowId # Str("new")
\* The guard of the onRecords listener, line 337.
RecordsGuard(msg) == recordsListener /\ Truthy(msg.tableId) /\ msg.dataChange

\* The guard of the onNewRecord listener, line 325.
NewRecordGuard(msg) ==
  newRecordListener /\ Truthy(msg.tableId) /\ msg.rowId = Str("new")
\* The guard of the onOptions listener, line 362.
OptionsGuard(msg) == optionsListener /\ Truthy(msg.settings)
\* callback(msg.options || null, msg.settings)
OptionsArguments(msg) ==
  Arr(<<IF Truthy(msg.options) THEN msg.options ELSE Null, msg.settings>>)

\* A listener invocation suspended at its remote fetch (lines 314, 338);
\* errs is history: the configure failures logged before the delivery.
NewHandler_unsuspended(kind, msg) ==
  [kind |-> kind, mc |-> msg.mappingsChange, pc |-> "resume", req |-> 0, ret |-> Undef,
   fetched |-> Undef, data |-> Undef, errs |-> configureErrors]
NewHandler(kind, msg) ==
  [kind |-> kind, mc |-> msg.mappingsChange, pc |-> "fetch", req |-> 0, ret |-> Undef,
   fetched |-> Undef, data |-> Undef, errs |-> configureErrors]

\* The jobs that resolving _initialization queues: one per suspended caller.
RECURSIVE ReleaseCallers(_, _)
ReleaseCallers(cs, c) ==
  IF c > Len(cs) THEN <<>>
  ELSE (IF cs[c].pc = "waiting" THEN <<Job("gstResume", c, Undef)>> ELSE <<>>)
       \o ReleaseCallers(cs, c + 1)

Receive(msg) ==
  /\ Idle
  /\ LET fire == Binds(msg) /\ SignalNeeded
         started == (IF RecordGuard(msg) THEN <<NewHandler("record", msg)>> ELSE <<>>)
                    \o (IF RecordsGuard(msg) THEN <<NewHandler("records", msg)>> ELSE <<>>)
     IN
     /\ Len(handlers) + Len(started) <= MaxHandlers
     /\ handlers' = handlers \o started
     /\ IF Binds(msg)
          THEN /\ tableId' = msg.tableId
               /\ firstTableId' = IF Truthy(firstTableId) THEN firstTableId ELSE msg.tableId
               /\ rebound' = (rebound \/ Truthy(firstTableId))
          ELSE UNCHANGED <<tableId, firstTableId, rebound>>
     /\ earlyMessage' = (earlyMessage \/ (~readyCalled /\ Truthy(msg.tableId)))
     /\ setInitializedCalls' = IF fire THEN setInitializedCalls + 1 ELSE setInitializedCalls
     /\ initialized' = (initialized \/ fire)
     /\ IF fire /\ ~initialized
          THEN /\ microtasks' = microtasks \o ReleaseCallers(calls, 1)
               /\ calls' = [c \in DOMAIN calls |->
                             IF calls[c].pc = "waiting"
                               THEN [calls[c] EXCEPT !.pc = "queued"] ELSE calls[c]]
          ELSE UNCHANGED <<microtasks, calls>>
     /\ dispatched' =
          [newRecord |-> NewRecordGuard(msg),
           options |-> IF OptionsGuard(msg) THEN OptionsArguments(msg) ELSE Undef]
  /\ UNCHANGED <<readyCalled, bindingListeners, readyVars, cacheVars, asideVars,
                 listenerVars, readyCalls, firstSettings>>

\* ------------------------------------------------------------------------
\* The replies to docApi.fetchSelectedRecord / docApi.fetchSelectedTable.

\* What docApi.fetchSelectedRecord may resolve with: a record.
FetchedRecords == {Obj([id |-> Num(1), Name |-> Str("A")])}
\* What docApi.fetchSelectedTable may resolve with: a table by columns,
\* which may lack its id column (line 339) and need not be rectangular.
ScenarioTable ==
  Obj([id |-> Arr(<<Num(1), Num(2)>>), Name |-> Arr(<<Str("A"), Str("B")>>)])
TableNoId == Obj([Name |-> Arr(<<Str("A"), Str("B")>>)])
TableRagged == Obj([id |-> Arr(<<Num(1), Num(2)>>), Name |-> Arr(<<Str("A")>>)])
FetchedTables == {ScenarioTable, TableNoId, TableRagged}

\* The fetch resolved with data.
FetchReplied(h, data) ==
  /\ Idle
  /\ h \in DOMAIN handlers
  /\ handlers[h].pc = "fetch"
  /\ data \in (IF handlers[h].kind = "record" THEN FetchedRecords ELSE FetchedTables)
  /\ handlers' = [handlers EXCEPT ![h].pc = "resume", ![h].fetched = data]
  /\ microtasks' = Append(microtasks, Job("handlerResume", h, data))
  /\ UNCHANGED <<handshakeVars, readyVars, cacheVars, asideVars, listenerVars,
                 dispatched, calls, readyCalls, firstSettings>>

\* The fetch rejected: the rejection propagates out of the listener.
FetchFailed(h) ==
  /\ Idle
  /\ h \in DOMAIN handlers
  /\ handlers[h].pc = "fetch"
  /\ handlers' = [handlers EXCEPT ![h].pc = "failed"]
  /\ UNCHANGED <<handshakeVars, readyVars, cacheVars, asideVars, listenerVars,
                 dispatched, microtasks, calls, readyCalls, firstSettings>>

\* ------------------------------------------------------------------------
\* getMappingsIfChanged(): lines 196-212.

\* JSON.parse(JSON.stringify(v)) of a mapping: strings, null and arrays of
\* strings are rebuilt member by member.
RECURSIVE JsonCopy(_)
JsonCopy(v) ==
  CASE v.t = "obj" -> Obj([k \in DOMAIN v.f |-> JsonCopy(v.f[k])])
    [] v.t = "arr" -> Arr([i \in DOMAIN v.a |-> JsonCopy(v.a[i])])
    [] v.t = "undefined" -> Null
    [] OTHER -> v

\* if (data.mappingsChange || uninitialized)
NeedsRefresh_always(mc) == TRUE
NeedsRefresh(mc) == mc \/ mappingsCache = Undef
\* if (!_activeRefreshReq)
NoActiveRequest_always == TRUE
NoActiveRequest == activeRefreshReq = 0
\* .then(mappings => void (_mappingsCache = mappings))
StoreMappings_drop(m) == mappingsCache
StoreMappings(m) == m
\* .finally(() => _activeRefreshReq = null); ok is Null after a success
ClearRequest_onSuccess(r, ok) == IF ok = Null THEN 0 ELSE r
ClearRequest(r, ok) == 0
\* return _mappingsCache ? JSON.parse(JSON.stringify(_mappingsCache)) : null
ReturnMappings == IF Truthy(mappingsCache) THEN JsonCopy(mappingsCache) ELSE Null

\* if (!data.id) { return; }
TableSkipped(data) == ~Truthy(Get(data, "id"))

\* data[key][i], with i counted from 1.
Cell(column, i) == IF i <= Len(column.a) THEN column.a[i] ELSE Undef
\* The loop of lines 340-347: one row per index of data.id, holding the
\* value every column has at that index.
Rows_byColumn(data) ==
  Arr([i \in 1..Len(data.f["Name"].a) |-> Obj([k \in DOMAIN data.f |-> Cell(data.f[k], i)])])
Rows(data) ==
  Arr([i \in 1..Len(data.f["id"].a) |-> Obj([k \in DOMAIN data.f |-> Cell(data.f[k], i)])])

\* The first argument of the callback: the record, or the rows.
CallbackData(kind, data) == IF kind = "record" THEN data ELSE Rows(data)

\* The listener resumes after its fetch and calls getMappingsIfChanged(msg),
\* which runs up to `await _activeRefreshReq` or to its return.
HandlerResume ==
  /\ HeadJob("handlerResume")
  /\ LET h == Head(microtasks).id
         rest == Tail(microtasks)
         new == Len(refreshes) + 1
         data == Head(microtasks).val
         arg == CallbackData(handlers[h].kind, data)
     IN
     IF handlers[h].kind = "records" /\ TableSkipped(data)
       THEN /\ handlers' = [handlers EXCEPT ![h].pc = "skipped"]
            /\ microtasks' = rest
            /\ UNCHANGED cacheVars
       ELSE IF NeedsRefresh(handlers[h].mc)
         THEN IF NoActiveRequest
           THEN /\ refreshes' = Append(refreshes,
                                  [status |-> "inflight", val |-> Undef, waiters |-> <<h>>,
                                   seen |-> Len(handlers), before |-> mappingsCache])
                /\ activeRefreshReq' = new
                /\ handlers' = [handlers EXCEPT ![h].pc = "awaitRefresh", ![h].req = new,
                                                ![h].data = arg]
                /\ microtasks' = rest
                /\ UNCHANGED mappingsCache
           ELSE LET r == activeRefreshReq IN
                /\ handlers' = [handlers EXCEPT ![h].req = r, ![h].data = arg,
                                  ![h].pc = IF refreshes[r].status \in {"inflight", "replied"}
                                              THEN "awaitRefresh" ELSE "resuming"]
                /\ refreshes' = [refreshes EXCEPT ![r].waiters =
                                  IF refreshes[r].status \in {"inflight", "replied"}
                                    THEN Append(@, h) ELSE @]
                /\ microtasks' =
                     IF refreshes[r].status \in {"inflight", "replied"} THEN rest
                     ELSE Append(rest, Job("gmResume", h,
                            IF refreshes[r].status = "fulfilled" THEN Null ELSE Throw))
                /\ UNCHANGED <<mappingsCache, activeRefreshReq>>
         ELSE /\ handlers' = [handlers EXCEPT ![h].pc = "returned", ![h].ret = ReturnMappings,
                                              ![h].data = arg]
              /\ microtasks' = Append(rest, Job("callback", h, Undef))
              /\ UNCHANGED cacheVars
  /\ UNCHANGED <<handshakeVars, readyVars, asideVars, listenerVars, dispatched, calls,
                 readyCalls, firstSettings>>

\* The reply to sectionApi.mappings(): resolved with m.
MappingsReplied(r, m) ==
  /\ Idle
  /\ r \in DOMAIN refreshes
  /\ refreshes[r].status = "inflight"
  /\ refreshes' = [refreshes EXCEPT ![r].status = "replied"]
  /\ microtasks' = Append(microtasks, Job("then", r, m))
  /\ UNCHANGED <<handshakeVars, readyVars, mappingsCache, activeRefreshReq, asideVars,
                 listenerVars, dispatched, handlers, calls, readyCalls, firstSettings>>

\* The reply to sectionApi.mappings(): rejected; .then's callback is skipped.
MappingsFailed(r) ==
  /\ Idle
  /\ r \in DOMAIN refreshes
  /\ refreshes[r].status = "inflight"
  /\ refreshes' = [refreshes EXCEPT ![r].status = "replied"]
  /\ microtasks' = Append(microtasks, Job("finally", r, Throw))
  /\ UNCHANGED <<handshakeVars, readyVars, mappingsCache, activeRefreshReq, asideVars,
                 listenerVars, dispatched, handlers, calls, readyCalls, firstSettings>>

\* The callback of .then: the cache is stored.
ThenJob ==
  /\ HeadJob("then")
  /\ LET r == Head(microtasks).id
         m == Head(microtasks).val
     IN
     /\ mappingsCache' = StoreMappings(m)
     /\ refreshes' = [refreshes EXCEPT ![r].val = m]
     /\ microtasks' = Append(Tail(microtasks), Job("finally", r, Null))
  /\ UNCHANGED <<handshakeVars, readyVars, activeRefreshReq, asideVars, listenerVars,
                 dispatched, handlers, calls, readyCalls, firstSettings>>

\* The jobs that settling the promise r queues: one per awaiting caller.
RECURSIVE ResumeWaiters(_, _)
ResumeWaiters_fulfilled(ws, ok) == [i \in DOMAIN ws |-> Job("gmResume", ws[i], Null)]
ResumeWaiters(ws, ok) ==
  IF ws = <<>> THEN <<>>
  ELSE <<Job("gmResume", Head(ws), ok)>> \o ResumeWaiters(Tail(ws), ok)

\* The callback of .finally, after which the promise r settles.
FinallyJob ==
  /\ HeadJob("finally")
  /\ LET r == Head(microtasks).id
         ok == Head(microtasks).val
         ws == refreshes[r].waiters
     IN
     /\ activeRefreshReq' = ClearRequest(r, ok)
     /\ refreshes' = [refreshes EXCEPT
                        ![r].status = IF ok = Null THEN "fulfilled" ELSE "rejected",
                        ![r].waiters = <<>>]
     /\ handlers' = [h \in DOMAIN handlers |->
                      IF handlers[h].pc = "awaitRefresh" /\ handlers[h].req = r
                        THEN [handlers[h] EXCEPT !.pc = "resuming"] ELSE handlers[h]]
     /\ microtasks' = Tail(microtasks) \o ResumeWaiters(ws, ok)
  /\ UNCHANGED <<handshakeVars, readyVars, mappingsCache, asideVars, listenerVars,
                 dispatched, calls, readyCalls, firstSettings>>

\* The continuation of `await _activeRefreshReq`, up to the return.
GmResume ==
  /\ HeadJob("gmResume")
  /\ LET h == Head(microtasks).id IN
     IF Head(microtasks).val = Null
       THEN /\ handlers' = [handlers EXCEPT ![h].pc = "returned", ![h].ret = ReturnMappings]
            /\ microtasks' = Append(Tail(microtasks), Job("callback", h, Undef))
       ELSE /\ handlers' = [handlers EXCEPT ![h].pc = "failed"]
            /\ microtasks' = Tail(microtasks)
  /\ UNCHANGED <<handshakeVars, readyVars, cacheVars, asideVars, listenerVars,
                 dispatched, calls, readyCalls, firstSettings>>

\* callback(rec, mappings): lines 315 and 348.
CallbackJob ==
  /\ HeadJob("callback")
  /\ handlers' = [handlers EXCEPT ![Head(microtasks).id].pc = "done"]
  /\ microtasks' = Tail(microtasks)
  /\ UNCHANGED <<handshakeVars, readyVars, cacheVars, asideVars, listenerVars,
                 dispatched, calls, readyCalls, firstSettings>>

\* ------------------------------------------------------------------------
Next ==
  \/ \E s \in ReadySettings : Ready(s)
  \/ ReadyAnnounced
  \/ ReadyAnnounceFailed
  \/ \E ok \in BOOLEAN : ConfigureSettled(ok)
  \/ GetSelectedTableId
  \/ GstResume
  \/ OnRecord
  \/ OnRecords
  \/ OnNewRecord
  \/ OnOptions
  \/ \E msg \in Messages : Receive(msg)
  \/ \E h \in 1..MaxHandlers, d \in FetchedRecords \cup FetchedTables : FetchReplied(h, d)
  \/ \E h \in 1..MaxHandlers : FetchFailed(h)
  \/ HandlerResume
  \/ \E r \in 1..MaxHandlers, m \in HostMappings : MappingsReplied(r, m)
  \/ \E r \in 1..MaxHandlers : MappingsFailed(r)
  \/ ThenJob
  \/ FinallyJob
  \/ GmResume
  \/ CallbackJob

Spec == Init /\ [][Next]_vars

\* The handshake and the mapping cache are two halves of the program that
\* share only the delivery of messages and the microtask queue: no action
\* of one reads or writes a variable of the other.  Each half is explored
\* on its own, with the other one at rest.

\* The handshake alone: the widget registers no record listener.
NextHandshake ==
  \/ \E s \in ReadySettings : Ready(s)
  \/ ReadyAnnounced
  \/ ReadyAnnounceFailed
  \/ \E ok \in BOOLEAN : ConfigureSettled(ok)
  \/ GetSelectedTableId
  \/ GstResume
  \/ \E msg \in Messages : Receive(msg)

SpecHandshake == Init /\ [][NextHandshake]_vars

\* The record listeners and the mapping cache alone: ready() is not called.
NextCache ==
  \/ OnRecord
  \/ OnRecords
  \/ \E msg \in Messages : Receive(msg)
  \/ \E h \in 1..MaxHandlers, d \in FetchedRecords \cup {ScenarioTable, TableNoId} :
       FetchReplied(h, d)
  \/ \E h \in 1..MaxHandlers : FetchFailed(h)
  \/ HandlerResume
  \/ \E r \in 1..MaxHandlers, m \in HostMappings : MappingsReplied(r, m)
  \/ \E r \in 1..MaxHandlers : MappingsFailed(r)
  \/ ThenJob
  \/ FinallyJob
  \/ GmResume
  \/ CallbackJob

SpecCache == Init /\ [][NextCache]_vars

\* The dispatcher: the four on...() listeners and what they start, for a
\* host whose messages carry every shape and never signal a mapping change,
\* and whose remote calls succeed.
DispatchMessages ==
  {msg \in Messages : ~msg.mappingsChange /\ msg.tableId \in {Undef, Str(""), Str("T1")}}

NextDispatch ==
  \/ OnRecord
  \/ OnNewRecord
  \/ OnRecords
  \/ OnOptions
  \/ \E msg \in DispatchMessages : Receive(msg)
  \/ \E h \in 1..MaxHandlers, d \in FetchedRecords \cup FetchedTables : FetchReplied(h, d)
  \/ HandlerResume
  \/ \E r \in 1..MaxHandlers, m \in HostMappings : MappingsReplied(r, m)
  \/ ThenJob
  \/ FinallyJob
  \/ GmResume
  \/ CallbackJob

SpecDispatch == Init /\ [][NextDispatch]_vars

\* The event loop runs every queued job, and a host whose remote calls
\* succeed answers every call.
Responsive ==
  /\ WF_vars(\E h \in 1..MaxHandlers, d \in FetchedRecords \cup FetchedTables : FetchReplied(h, d))
  /\ WF_vars(\E r \in 1..MaxHandlers, m \in HostMappings : MappingsReplied(r, m))
  /\ WF_vars(HandlerResume)
  /\ WF_vars(ThenJob)
  /\ WF_vars(FinallyJob)
  /\ WF_vars(GmResume)
  /\ WF_vars(CallbackJob)

SpecDispatchFair == SpecDispatch /\ Responsive

\* The widget: ready() and the record listeners together, for a host that
\* binds the widget to one table or another, signals no mapping change and
\* answers every call but, possibly, the ready announcement and configure.
WidgetMessages ==
  {msg \in Messages :
     /\ msg.tableId \in {Str("T1"), Str("T2")}
     /\ msg.rowId = Num(1)
     /\ ~msg.mappingsChange
     /\ msg.settings = Undef
     /\ msg.options = Undef}
WidgetMappings == {Obj([Name |-> Str("B"), Email |-> Null])}

NextWidget ==
  \/ \E s \in ReadySettings : Ready(s)
  \/ ReadyAnnounced
  \/ ReadyAnnounceFailed
  \/ \E ok \in BOOLEAN : ConfigureSettled(ok)
  \/ OnRecord
  \/ OnRecords
  \/ \E msg \in WidgetMessages : Receive(msg)
  \/ \E h \in 1..MaxHandlers, d \in FetchedRecords \cup {ScenarioTable} : FetchReplied(h, d)
  \/ HandlerResume
  \/ \E r \in 1..MaxHandlers, m \in WidgetMappings : MappingsReplied(r, m)
  \/ ThenJob
  \/ FinallyJob
  \/ GmResume
  \/ CallbackJob

SpecWidget == Init /\ [][NextWidget]_vars

\* The load of the module in every environment, and the traffic through
\* the hooks it installed.
InitTransport ==
  /\ InitState
  /\ mapIn = Undef
  /\ mapOut = Undef
  /\ \E env \in HostSignals : transport = Undetected(env)

NextTransport ==
  \/ Detect
  \/ SendMessage
  \/ HostMessage
  \/ Disconnect

SpecTransport == InitTransport /\ [][NextTransport]_vars

\* ------------------------------------------------------------------------
\* mapColumnNames(), mapColumnNamesBack(): lines 219-300.

\* An option that the caller did not pass.
Absent == [t |-> "absent"]
Options(columns, mappings) == [columns |-> columns, mappings |-> mappings, reverse |-> Absent]

\* {columns: _columnsToMap, mappings: _mappingsCache, reverse: false, ...options}
OptionOr(given, default) == IF given.t = "absent" THEN default ELSE given

\* Object.keys(options.mappings).sort(): the names the model uses, in the
\* order of their UTF-16 code units.
KeyOrder == <<"Email", "Name", "Tags">>
IsKeyOf(m, k) == k \in DOMAIN m.f
SortedKeys(m) == SelectSeq(KeyOrder, LAMBDA k : IsKeyOf(m, k))

\* isOptional(col), lines 246-252; columns is the array's sequence.
IsOptional_never(columns, col) == FALSE
IsOptional(columns, col) ==
  /\ ~\E i \in DOMAIN columns : columns[i] = Str(col)
  /\ \E i \in DOMAIN columns :
       columns[i].t = "col" /\ columns[i].name = col /\ columns[i].optional

\* Array.isArray(gristCol) && gristCol.length
IsSeries(g) == g.t = "arr" /\ Len(g.a) > 0
\* !Array.isArray(gristCol) && gristCol
IsDirect(g) == g.t # "arr" /\ Truthy(g)

\* The loop of lines 255-282: the transformations pushed for the keys, in
\* order; the loop returns null at an unset column that is not optional.
RECURSIVE Transformations(_, _, _)
Transformations(keys, columns, mappings) ==
  IF keys = <<>> THEN <<>>
  ELSE LET w == Head(keys)
           g == mappings.f[w]
       IN
       IF IsSeries(g)
         THEN <<[op |-> "series", w |-> w, cols |-> g.a]>>
              \o Transformations(Tail(keys), columns, mappings)
       ELSE IF IsDirect(g)
         THEN <<[op |-> "direct", w |-> w, col |-> g.s]>>
              \o Transformations(Tail(keys), columns, mappings)
       ELSE IF ~IsOptional(columns, w)
         THEN <<[op |-> "null"]>>
       ELSE Transformations(Tail(keys), columns, mappings)

\* v?.[idx] with idx counted from 1; the strings of the model have one
\* character, so that only their first index holds a value.
Index(v, i) ==
  CASE v.t = "arr" -> IF i <= Len(v.a) THEN v.a[i] ELSE Undef
    [] v.t = "str" -> IF i = 1 /\ v.s # "" THEN v ELSE Undef
    [] OTHER -> Undef

\* to[col] = from[widgetCol]?.[idx], line 267
ReverseSeriesValue_first(from, w, i) == Index(Get(from, w), 1)
ReverseSeriesValue(from, w, i) == Index(Get(from, w), i)

\* The loop of lines 266-268.
RECURSIVE ReverseSeries(_, _, _, _, _)
ReverseSeries(from, to, w, cols, i) ==
  IF i > Len(cols) THEN to
  ELSE ReverseSeries(from, Put(to, cols[i].s, ReverseSeriesValue(from, w, i)), w, cols, i + 1)

\* One transformation applied: tran(rec, obj).
Transform(tr, from, to, reverse) ==
  CASE tr.op = "id" -> Put(to, "id", Get(from, "id"))
    [] tr.op = "series" ->
         IF ~reverse
           THEN Put(to, tr.w, Arr([i \in DOMAIN tr.cols |-> Get(from, tr.cols[i].s)]))
           ELSE ReverseSeries(from, to, tr.w, tr.cols, 1)
    [] tr.op = "direct" ->
         IF ~reverse
           THEN Put(to, tr.w, Get(from, tr.col))
           ELSE Put(to, tr.col, Get(from, tr.w))

\* transformations.reduce((obj, tran) => { tran(rec, obj); return obj; }, {})
RECURSIVE Reduce(_, _, _, _)
Reduce(trs, rec, obj, reverse) ==
  IF trs = <<>> THEN obj
  ELSE Reduce(Tail(trs), rec, Transform(Head(trs), rec, obj, reverse), reverse)

\* convert(rec): reading rec.id of null or undefined throws a TypeError.
Convert(trs, rec, reverse) ==
  IF rec.t \in {"null", "undefined", "throw"} THEN Throw
  ELSE Reduce(trs, rec, EmptyObj, reverse)

\* if (!options.mappings) { return null; }
MappingsMissing(mappings) == ~Truthy(mappings)
\* if (Array.isArray(data) && data.length === 0) { return data; }
EmptyTable(data) == data.t = "arr" /\ Len(data.a) = 0

MapColumnNames(data, options) ==
  LET columns == OptionOr(options.columns, columnsToMap)
      mappings == OptionOr(options.mappings, mappingsCache)
      reverse == Truthy(OptionOr(options.reverse, Bool(FALSE)))
  IN
  IF ~Truthy(columns) THEN data
  ELSE IF MappingsMissing(mappings) THEN Null
  ELSE IF EmptyTable(data) THEN data
  ELSE LET trs == <<[op |-> "id"]>> \o Transformations(SortedKeys(mappings), columns.a, mappings)
       IN
       IF trs[Len(trs)].op = "null" THEN Null
       ELSE IF data.t = "arr"
         THEN IF \E i \in DOMAIN data.a : Convert(trs, data.a[i], reverse) = Throw
                THEN Throw
                ELSE Arr([i \in DOMAIN data.a |-> Convert(trs, data.a[i], reverse)])
         ELSE Convert(trs, data, reverse)

\* mapColumnNames(data, {...options, reverse: true})
MapColumnNamesBack(data, options) == MapColumnNames(data, [options EXCEPT !.reverse = Bool(TRUE)])

\* ------------------------------------------------------------------------
\* The inputs of the mapColumnNames scenarios.

\* The descriptors a ColumnsToMap is made of, in a fixed order.
Descriptors ==
  <<ColName("Name"), ColDesc("Name", TRUE), ColName("Email"), ColDesc("Email", TRUE),
    ColDesc("Email", FALSE), ColDesc("Tags", TRUE)>>
InSet(S, d) == d \in S
ColumnSpecs ==
  {Arr(SelectSeq(Descriptors, LAMBDA d : InSet(S, d))) :
     S \in SUBSET {Descriptors[i] : i \in DOMAIN Descriptors}}

\* Series of host columns, up to MaxSeries long.
SeriesOf(n) == [1..n -> {Str("C1"), Str("C2")}]
SeriesValues == {Arr(a) : a \in UNION {SeriesOf(n) : n \in 0..MaxSeries}}

\* A ColumnMapping: each widget name absent, unset, or mapped.
MappingOf(name, email, tags) ==
  Obj([k \in {x \in {"Name", "Email", "Tags"} :
               \/ x = "Name" /\ name # Absent
               \/ x = "Email" /\ email # Absent
               \/ x = "Tags" /\ tags # Absent} |->
        IF k = "Name" THEN name ELSE IF k = "Email" THEN email ELSE tags])
ColumnMappings ==
  {MappingOf(n, e, g) : n \in {Absent, Null, Str("B"), Str("C1")},
                        e \in {Absent, Null, Str("B")},
                        g \in {Absent, Null} \cup SeriesValues}

\* Host records {id: 1, B?, C1, C2?}.
RecordOf(b, c1, c2) ==
  Obj([k \in {x \in {"id", "B", "C1", "C2"} :
               \/ x \in {"id", "C1"}
               \/ x = "B" /\ b # Absent
               \/ x = "C2" /\ c2 # Absent} |->
        IF k = "id" THEN Num(1) ELSE IF k = "B" THEN b ELSE IF k = "C1" THEN c1 ELSE c2])
Records ==
  {RecordOf(b, c1, c2) : b \in {Absent, Str("x")}, c1 \in {Str("x"), Str("y")},
                         c2 \in {Absent, Str("y")}}
Tables ==
  {Arr(<<>>),
   Arr(<<RecordOf(Str("x"), Str("x"), Str("y")), RecordOf(Absent, Str("y"), Absent)>>)}

\* mapColumnNames(data, options) is about to be called, in the state the
\* module is in when it is loaded.
InitMap ==
  /\ InitCore
  /\ \E d \in Records \cup Tables, c \in ColumnSpecs \cup {Absent},
        m \in ColumnMappings \cup {Null, Absent} :
       mapIn = [data |-> d, options |-> Options(c, m)]
  /\ mapOut = [pc |-> "call", out |-> Undef, back |-> Undef]

nonMapVars == <<coreVars, transport>>

\* out = mapColumnNames(data, options)
CallMapColumnNames ==
  /\ mapOut.pc = "call"
  /\ mapOut' = [mapOut EXCEPT !.pc = "mapped", !.out = MapColumnNames(mapIn.data, mapIn.options)]
  /\ UNCHANGED <<mapIn, nonMapVars>>

\* back = mapColumnNamesBack(out, options)
CallMapColumnNamesBack ==
  /\ mapOut.pc = "mapped"
  /\ mapOut' = [mapOut EXCEPT !.pc = "back",
                              !.back = MapColumnNamesBack(mapOut.out, mapIn.options)]
  /\ UNCHANGED <<mapIn, nonMapVars>>

NextMap ==
  \/ CallMapColumnNames
  \/ CallMapColumnNamesBack

SpecMap == InitMap /\ [][NextMap]_vars

\* ------------------------------------------------------------------------
\* The mapping cache, under SpecCache.

\* The requests whose remote call has not replied, and those not yet settled.
InFlight == {r \in DOMAIN refreshes : refreshes[r].status = "inflight"}
Unsettled == {r \in DOMAIN refreshes : refreshes[r].status \in {"inflight", "replied"}}
Awaiting == {h \in DOMAIN handlers : handlers[h].pc = "awaitRefresh"}
Returned == {h \in DOMAIN handlers : handlers[h].pc \in {"returned", "done"}}

\* C1: at most one remote sectionApi.mappings() call is in flight in every
\* reachable state, and all the getMappingsIfChanged callers that are
\* suspended at the same time await one and the same request, the one
\* _activeRefreshReq names: the callers that arrive before it resolves start
\* no second fetch.
C1_SingleFlight ==
  /\ Cardinality(InFlight) <= 1
  /\ Cardinality(Unsettled) <= 1
  /\ \A h \in Awaiting :
       handlers[h].req = activeRefreshReq /\ handlers[h].req \in Unsettled

\* Two callers are suspended on the only fetch ever started.
C1_Witness ==
  /\ Cardinality(Awaiting) = 2
  /\ Len(refreshes) = 1
  /\ InFlight = {1}

\* C2: every caller that awaited a refresh and returned, returned the value
\* that refresh's remote call stored (null for a null mapping), so that all
\* the callers of one refresh return the same value.
C2_SameValue ==
  \A h \in Returned :
    handlers[h].req # 0 =>
      /\ refreshes[handlers[h].req].status = "fulfilled"
      /\ handlers[h].ret = (IF Truthy(refreshes[handlers[h].req].val)
                              THEN refreshes[handlers[h].req].val ELSE Null)

\* Two callers of one refresh have returned its mapping.
C2_Witness ==
  \E h1, h2 \in Returned :
    /\ h1 # h2
    /\ handlers[h1].req # 0
    /\ handlers[h1].req = handlers[h2].req
    /\ handlers[h1].ret = handlers[h2].ret
    /\ handlers[h1].ret # Null

\* C3: once the fetch of a request has completed and its jobs have run, the
\* marker no longer names it, whether it resolved or rejected: when no job is
\* pending, a set marker names a request whose remote call is still in
\* flight, so a settled request never blocks the next refresh.
C3_MarkerCleared ==
  /\ \A r \in DOMAIN refreshes :
       refreshes[r].status \in {"fulfilled", "rejected"} => activeRefreshReq # r
  /\ (Idle /\ activeRefreshReq # 0) => activeRefreshReq \in InFlight

\* After a failed fetch the marker was cleared and a later call started a
\* new remote call.
C3_Witness ==
  /\ Len(refreshes) = 2
  /\ refreshes[1].status = "rejected"
  /\ activeRefreshReq = 2
  /\ InFlight = {2}

\* ------------------------------------------------------------------------
\* The handshake, under SpecHandshake.

\* Everything ready() can change, but the count of its invocations.
readyEffects == <<readyCalled, tableId, initialized, bindingListeners, setInitializedCalls,
                  readyVars, cacheVars, listenerVars, dispatched, microtasks,
                  handlers, calls>>

\* C4: ready() is idempotent: an invocation after the first changes nothing,
\* so the binding listener is attached once, processIncoming is signalled
\* once, the ready announcement is sent once, and configure is sent at most
\* once, with the settings of the first invocation.
C4_ReadyIdempotent ==
  /\ [](/\ bindingListeners <= 1
        /\ processIncoming <= 1
        /\ readyMessages <= 1
        /\ editOptionsFuncs <= 1
        /\ Len(configureCalls) <= 1
        /\ (configureCalls # <<>> =>
              Truthy(firstSettings) /\ configureCalls[1] = ConfigureOptions(firstSettings)))
  /\ [][(readyCalled /\ readyCalls' # readyCalls) => UNCHANGED readyEffects]_vars

\* ready() was invoked twice and the handshake completed with one configure.
C4_Witness ==
  /\ readyCalls = 2
  /\ readyPc = "done"
  /\ Len(configureCalls) = 1
  /\ bindingListeners = 1

\* The jobs queued to resume the getSelectedTableId() invocation c.
ResumeJobs(c) ==
  {i \in DOMAIN microtasks : microtasks[i].job = "gstResume" /\ microtasks[i].id = c}

\* C5: _setInitialized() is invoked exactly once, by the first bound
\* identifier: a later message with another tableId changes _tableId and
\* does not invoke it again; and every caller suspended on _initialization
\* is released once, by that one invocation.
C5_SignalOnce ==
  /\ setInitializedCalls = (IF Truthy(tableId) THEN 1 ELSE 0)
  /\ initialized = Truthy(tableId)
  /\ \A c \in DOMAIN calls :
       /\ Cardinality(ResumeJobs(c)) = (IF calls[c].pc = "queued" THEN 1 ELSE 0)
       /\ calls[c].pc = "waiting" => ~initialized

\* The identifier was rebound after a suspended caller had been released.
C5_Witness ==
  /\ rebound
  /\ tableId # firstTableId
  /\ setInitializedCalls = 1
  /\ \E c \in DOMAIN calls : calls[c].early /\ calls[c].pc = "done"

Done == {c \in DOMAIN calls : calls[c].pc = "done"}

\* C6 as stated: an invocation made before the binding stays suspended
\* until the binding, and an invocation made before the binding and one made
\* after it resolve to the same identifier, never undefined.
C6_SameIdentifier ==
  /\ \A c \in DOMAIN calls : ~initialized => calls[c].pc = "waiting"
  /\ \A c \in Done : Truthy(calls[c].ret)
  /\ \A c1, c2 \in Done :
       (calls[c1].early /\ ~calls[c2].early) => calls[c1].ret = calls[c2].ret

\* C6 amended: an invocation made before the binding stays suspended until
\* the binding; one made after it is never left waiting for a message (its
\* continuation is queued at once, and no invocation is pending when the
\* queue is empty); every resolved invocation returned the identifier that
\* was bound when it resumed, never undefined; so all of them returned the
\* same one as long as _tableId was assigned once.
C6_BoundIdentifier ==
  /\ \A c \in DOMAIN calls : ~initialized => calls[c].pc = "waiting"
  /\ \A c \in DOMAIN calls : initialized => calls[c].pc # "waiting"
  /\ \A c \in DOMAIN calls : Idle => calls[c].pc # "queued"
  /\ \A c \in Done : Truthy(calls[c].ret) /\ calls[c].ret = calls[c].bound
  /\ ~rebound => \A c \in Done : calls[c].ret = firstTableId

\* An invocation from before the binding and one from after it resolved to
\* the same identifier.
C6_Witness ==
  \E c1, c2 \in Done :
    /\ calls[c1].early
    /\ ~calls[c2].early
    /\ calls[c1].ret = calls[c2].ret
    /\ ~rebound

\* Uninitialized, AwaitingBinding, Bound.
HandshakeState == IF ~readyCalled THEN 0 ELSE IF ~Truthy(tableId) THEN 1 ELSE 2

\* C7: the handshake only moves forward.  Before ready() nothing binds:
\* _tableId is undefined, _initialization is unresolved and no
\* getSelectedTableId() invocation has resolved, whatever was delivered; and
\* a bound identifier is a non-empty string for ever after.
C7_ForwardOnly ==
  /\ [](~readyCalled =>
          /\ tableId = Undef
          /\ ~initialized
          /\ \A c \in DOMAIN calls : calls[c].pc = "waiting")
  /\ [](tableId # Undef => tableId.t = "str" /\ tableId.s # "")
  /\ [][HandshakeState' >= HandshakeState]_vars

\* A message with a tableId was delivered before ready() and bound nothing;
\* after ready() the widget was bound and bound again.
C7_Witness ==
  /\ earlyMessage
  /\ HandshakeState = 2
  /\ rebound

\* ------------------------------------------------------------------------
\* mapColumnNames, under SpecMap.

\* The options of the scenario as mapColumnNames resolves them.
GivenColumns == OptionOr(mapIn.options.columns, columnsToMap)
GivenMappings == OptionOr(mapIn.options.mappings, mappingsCache)

\* The names a ColumnsToMap declares, and those it requires: declared by a
\* bare name, or by no descriptor with optional set.
Declared(columns) ==
  {columns[i].s : i \in {j \in DOMAIN columns : columns[j].t = "str"}}
  \cup {columns[i].name : i \in {j \in DOMAIN columns : columns[j].t = "col"}}
Required(columns) == {n \in Declared(columns) : ~IsOptional(columns, n)}
\* A name the mapping leaves without a host column.
Unmapped(mappings, n) ==
  \/ n \notin DOMAIN mappings.f
  \/ ~(IsSeries(mappings.f[n]) \/ IsDirect(mappings.f[n]))

\* C8: whenever a required column of the MappingSpec is unmapped in the
\* ColumnMapping, mapColumnNames of a record returns null, whatever the
\* optional columns are mapped to.
C8_RequiredMissingIsNull ==
  (/\ mapOut.pc # "call"
   /\ mapIn.data \in Records
   /\ Truthy(GivenColumns)
   /\ GivenMappings.t = "obj"
   /\ \E n \in Required(GivenColumns.a) : Unmapped(GivenMappings, n))
  => mapOut.out = Null

\* C9: mapColumnNames of an empty sequence returns the empty sequence, for
\* any MappingSpec and ColumnMapping, also when a MappingSpec is declared
\* and no ColumnMapping is known.
C9_EmptyUnchanged ==
  (mapOut.pc # "call" /\ EmptyTable(mapIn.data)) => mapOut.out = mapIn.data

\* The host columns a mapping names, by a single name or in a series.
MappedHostColumns(mappings) ==
  UNION {IF IsSeries(mappings.f[w]) THEN {mappings.f[w].a[i].s : i \in DOMAIN mappings.f[w].a}
         ELSE IF IsDirect(mappings.f[w]) THEN {mappings.f[w].s}
         ELSE {} : w \in DOMAIN mappings.f}
\* mapColumnNamesBack(mapColumnNames(record)) gives every mapped host column
\* the value the record has for it.
Restored ==
  \A g \in MappedHostColumns(GivenMappings) : Get(mapOut.back, g) = Get(mapIn.data, g)

\* C10 as stated: for every ColumnMapping and MappingSpec and every record,
\* the round trip restores every host column a widget name is mapped to,
\* the columns of a series position for position.
C10_RoundTrip ==
  (/\ mapOut.pc = "back"
   /\ mapIn.data \in Records
   /\ GivenMappings.t = "obj")
  => Restored

\* C10 amended: the same, whenever mapColumnNames did not return null for
\* the record (no required column is left unmapped).
C10_RoundTripOfMapped ==
  (/\ mapOut.pc = "back"
   /\ mapIn.data \in Records
   /\ GivenMappings.t = "obj"
   /\ mapOut.out # Null)
  => Restored

\* A record with different values in the two columns of a series, and a
\* directly mapped column, went there and back.
C10_Witness ==
  /\ mapOut.pc = "back"
  /\ GivenColumns = Arr(<<ColName("Name"), ColDesc("Tags", TRUE)>>)
  /\ GivenMappings =
       Obj([Name |-> Str("B"), Tags |-> Arr(<<Str("C2"), Str("C1")>>)])
  /\ mapIn.data = RecordOf(Str("x"), Str("x"), Str("y"))
  /\ mapOut.out = Obj([id |-> Num(1), Name |-> Str("x"), Tags |-> Arr(<<Str("y"), Str("x")>>)])
  /\ mapOut.back = mapIn.data

\* The names the mapping holds with no host column: null, "" or [].
Unset(mappings) ==
  {w \in DOMAIN mappings.f : ~(IsSeries(mappings.f[w]) \/ IsDirect(mappings.f[w]))}

\* The names a MappingSpec declares optional: by a descriptor with optional
\* set, and by no bare name (a column passed as a string is required).
DeclaredOptional(columns) ==
  {columns[i].name : i \in {j \in DOMAIN columns : columns[j].t = "col" /\ columns[j].optional}}
  \ {columns[i].s : i \in {j \in DOMAIN columns : columns[j].t = "str"}}

AllRegistered == recordListener /\ newRecordListener /\ recordsListener /\ optionsListener

\* The kinds of the listener invocations that a step left suspended at
\* their fetch, in the order they started.
StartedKinds ==
  [i \in 1..(Len(handlers') - Len(handlers)) |-> handlers'[Len(handlers) + i].kind]

\* The three shapes of message that C12 names.
ShapeAll ==
  {msg \in DispatchMessages :
     msg.tableId = Str("T1") /\ msg.rowId = Num(1) /\ msg.dataChange /\ msg.settings # Undef}
ShapeNew == {msg \in DispatchMessages : msg.tableId = Str("T1") /\ msg.rowId = Str("new")}
ShapeNoTable == {msg \in DispatchMessages : msg.tableId = Undef}

\* C12: with the four callbacks registered, each delivery tests the four
\* shapes independently.  A message with a tableId, a rowId other than
\* 'new', dataChange and settings starts the record and the records
\* handling and invokes the options callback; a message with a tableId and
\* rowId = 'new' invokes the new-record callback and starts no record
\* handling; a message without a tableId starts no record and no records
\* handling and does not invoke the new-record callback.
C12_IndependentShapes ==
  [][(AllRegistered /\ Idle) =>
       /\ \A msg \in ShapeAll :
            \/ /\ StartedKinds = <<"record", "records">>
               /\ dispatched'.options = OptionsArguments(msg)
               /\ ~dispatched'.newRecord
            \/ ~Receive(msg)
       /\ \A msg \in ShapeNew :
            \/ /\ dispatched'.newRecord
               /\ \A i \in DOMAIN StartedKinds : StartedKinds[i] # "record"
            \/ ~Receive(msg)
       /\ \A msg \in ShapeNoTable :
            \/ /\ StartedKinds = <<>>
               /\ ~dispatched'.newRecord
            \/ ~Receive(msg)]_vars

\* One delivery started the record and the records handling, both have
\* invoked their callback, and a later one invoked the new-record and the
\* options callbacks.
C12_Witness ==
  /\ AllRegistered
  /\ Len(handlers) = 2
  /\ handlers[1].kind = "record" /\ handlers[1].pc = "done"
  /\ handlers[2].kind = "records" /\ handlers[2].pc = "done"
  /\ dispatched.newRecord
  /\ dispatched.options # Undef

\* The rows of a table fetched by columns: one per index of the id column,
\* in index order, row i holding what every column has at index i.
IsRowsOf(rows, table) ==
  /\ rows.t = "arr"
  /\ Len(rows.a) = Len(table.f["id"].a)
  /\ \A i \in DOMAIN rows.a :
       /\ rows.a[i].t = "obj"
       /\ DOMAIN rows.a[i].f = DOMAIN table.f
       /\ rows.a[i].f["id"] = table.f["id"].a[i]
       /\ \A k \in DOMAIN table.f :
            rows.a[i].f[k] = (IF i <= Len(table.f[k].a) THEN table.f[k].a[i] ELSE Undef)

\* The records handling h has invoked its callback.
RecordsInvoked(h) ==
  h \in DOMAIN handlers /\ handlers[h].kind = "records" /\ handlers[h].pc = "done"
\* The records handling h ended at line 339, with no callback.
RecordsSkipped(h) ==
  h \in DOMAIN handlers /\ handlers[h].kind = "records" /\ handlers[h].pc = "skipped"
\* The callback jobs queued for the handling h.
CallbackJobs(h) ==
  {i \in DOMAIN microtasks : microtasks[i].job = "callback" /\ microtasks[i].id = h}
\* What holds of every records handling at any time: its callback is queued
\* once, when getMappingsIfChanged has returned, and is invoked with the
\* rows of the fetched table and the mapping returned.
RecordsCallbackOnce ==
  \A h \in DOMAIN handlers :
    handlers[h].kind = "records" =>
      /\ Cardinality(CallbackJobs(h)) = (IF handlers[h].pc = "returned" THEN 1 ELSE 0)
      /\ handlers[h].pc \in {"returned", "done"} =>
           /\ IsRowsOf(handlers[h].data, handlers[h].fetched)
           /\ handlers[h].ret \in HostMappings
           /\ handlers[h].req # 0 => handlers[h].ret = JsonCopy(refreshes[handlers[h].req].val)

\* C13 as stated: every bulk message whose remote calls succeed has the
\* records callback invoked, exactly once, with the rows of the fetched
\* table and the resolved mapping.
C13_RecordsCallback ==
  /\ []RecordsCallbackOnce
  /\ \A h \in 1..MaxHandlers :
       (h \in DOMAIN handlers /\ handlers[h].kind = "records") ~> RecordsInvoked(h)

\* C13 amended: the same for every bulk message whose fetched table has an
\* id column; for a table without one the handling ends with no callback.
C13_RecordsCallbackOfIds ==
  /\ []RecordsCallbackOnce
  /\ [][\A h \in DOMAIN handlers : RecordsInvoked(h) => RecordsInvoked(h)']_vars
  /\ [](\A h \in DOMAIN handlers :
          handlers[h].pc = "skipped" <=>
            (/\ handlers[h].kind = "records"
             /\ handlers[h].pc \notin {"fetch", "resume"}
             /\ "id" \notin DOMAIN handlers[h].fetched.f))
  /\ \A h \in 1..MaxHandlers :
       (h \in DOMAIN handlers /\ handlers[h].kind = "records")
         ~> (RecordsInvoked(h) \/ RecordsSkipped(h))

\* Scenario D: the table {id: [1, 2], Name: ["A", "B"]} reached the records
\* callback as [{id: 1, Name: "A"}, {id: 2, Name: "B"}].
C13_Witness ==
  \E h \in DOMAIN handlers :
    /\ RecordsInvoked(h)
    /\ handlers[h].fetched = ScenarioTable
    /\ handlers[h].data = Arr(<<Obj([id |-> Num(1), Name |-> Str("A")]),
                                Obj([id |-> Num(2), Name |-> Str("B")])>>)

\* ------------------------------------------------------------------------
\* Transport detection, under SpecTransport.

\* The sender each kind of host gets: a window with the embedding marker,
\* any other window, a background worker (no window, no process), a spawned
\* subprocess (a process with a channel to its parent), anything else.
ExpectedSender(env) ==
  CASE env.window /\ env.marker = Bool(TRUE) -> "sendToHost"
    [] env.window /\ env.marker # Bool(TRUE) -> "parent.postMessage"
    [] ~env.window /\ ~env.process -> "self.postMessage"
    [] ~env.window /\ env.process /\ env.send -> "process.send"
    [] ~env.window /\ env.process /\ ~env.send -> "noop"

\* C14: in every combination of the host signals the load of the module
\* runs to its end and installs exactly one sender, the one of the first
\* kind that matches in the order embedded window, generic window, worker,
\* subprocess, no-op; an unrecognized environment gets the no-op sender,
\* through which a message is dropped and nothing is raised.
C14_OneSender ==
  /\ transport.sender = "unset" => (transport.setSendCalls = 0 /\ ENABLED Detect)
  /\ transport.sender # "unset" =>
       /\ transport.setSendCalls = 1
       /\ transport.sender = ExpectedSender(transport.env)
  /\ transport.sent > 0 => transport.sender \notin {"unset", "noop"}
  /\ transport.dropped > 0 => transport.sender = "noop"

\* A process with no channel to a parent and no window got the no-op
\* sender, and a message sent through it was dropped.
C14_Witness ==
  /\ ~transport.env.window
  /\ transport.env.process
  /\ ~transport.env.send
  /\ transport.sender = "noop"
  /\ transport.dropped > 0

\* ------------------------------------------------------------------------
\* ready() and the dispatcher together, under SpecWidget.

\* Everything but the position of the async block of ready() and the count
\* of the failures it logged.
widgetState == <<handshakeVars, readySettings, editOptionsFuncs, processIncoming,
                 readyMessages, configureCalls, columnsToMap, cacheVars, listenerVars,
                 dispatched, microtasks, handlers, calls, transport>>

\* C15: the configure request is sent in the step that completes the ready
\* announcement, and only when the first ready() was given settings; a
\* configure failure is logged and ends the async block as a success would,
\* changing nothing else; and after it the listeners still take every
\* message the event loop delivers.
C15_ConfigureAfterReady ==
  /\ [](configureCalls # <<>> =>
          /\ Truthy(firstSettings)
          /\ readyMessages = 1
          /\ readyPc \in {"awaitConfigure", "done"})
  /\ [](readyPc \in {"none", "awaitReady", "failed"} => configureCalls = <<>>)
  /\ []((readyPc = "done" /\ ~Truthy(firstSettings)) => configureCalls = <<>>)
  /\ [][configureCalls' # configureCalls =>
          (readyPc = "awaitReady" /\ readyPc' = "awaitConfigure")]_vars
  /\ [][configureErrors' # configureErrors =>
          /\ readyPc = "awaitConfigure"
          /\ readyPc' = "done"
          /\ configureErrors' = configureErrors + 1
          /\ UNCHANGED widgetState]_vars
  /\ []((configureErrors > 0 /\ Idle /\ Len(handlers) + 2 <= MaxHandlers) =>
          \A msg \in WidgetMessages : ENABLED Receive(msg))

\* Configure failed; a message delivered after the failure rebound the
\* widget's table or was dispatched, and its callback was invoked.
C15_Witness ==
  /\ configureErrors = 1
  /\ readyPc = "done"
  /\ Truthy(tableId)
  /\ \E h \in DOMAIN handlers : handlers[h].errs = 1 /\ handlers[h].pc = "done"

\* ------------------------------------------------------------------------
\* The mapping cache again, under SpecCache.

\* The listener invocation about to call getMappingsIfChanged(msg); the call
\* is the step that moves it on.
Resuming == Head(microtasks).id
CallsGetMappings ==
  /\ HeadJob("handlerResume")
  /\ ~(handlers[Resuming].kind = "records" /\ "id" \notin DOMAIN Head(microtasks).val.f)

\* C16: when the cache is populated, be it with a null mapping, and the
\* message signals no mapping change, getMappingsIfChanged returns at once
\* with the cached mapping (null for a null one): it starts no remote call,
\* awaits none, and leaves the cache and the in-flight marker as they are.
C16_CachedNoCall ==
  [][(/\ CallsGetMappings
      /\ handlers'[Resuming].pc # handlers[Resuming].pc
      /\ mappingsCache # Undef
      /\ ~handlers[Resuming].mc)
     => /\ UNCHANGED <<mappingsCache, activeRefreshReq, refreshes>>
        /\ handlers'[Resuming].pc = "returned"
        /\ handlers'[Resuming].req = 0
        /\ handlers'[Resuming].ret = mappingsCache]_vars

\* The cache holds a null mapping, fetched once, and a later call returned
\* null from it without a second fetch.
C16_Witness ==
  /\ mappingsCache = Null
  /\ Len(refreshes) = 1
  /\ refreshes[1].status = "fulfilled"
  /\ \E h \in DOMAIN handlers :
       /\ handlers[h].pc \in {"returned", "done"}
       /\ handlers[h].req = 0
       /\ handlers[h].ret = Null

\* ------------------------------------------------------------------------
\* The order of handlers and of callbacks, under SpecCache.

\* The callback of handler h has run.
Fired(h) == h \in DOMAIN handlers /\ handlers[h].pc = "done"
\* Handler h is still waiting for the reply to its record or table fetch.
AtFetch(h) == h \in DOMAIN handlers /\ handlers[h].pc = "fetch"

\* C17: handlers start in delivery order: the delivery of a message appends
\* its handlers, each suspended at its remote fetch, behind those of the
\* messages before it and runs no part of an earlier handler; a handler gets
\* past its fetch only with its own reply. Callbacks need not fire in that
\* order: C17_Witness is a reachable state in which the callback of the later
\* of two record messages has fired while the earlier is still at its fetch.
C17_StartInOrder ==
  /\ [][/\ Len(handlers') >= Len(handlers)
        /\ \A h \in DOMAIN handlers' :
             h > Len(handlers) => (handlers'[h].pc = "fetch" /\ handlers'[h].fetched = Undef)
        /\ Len(handlers') > Len(handlers) =>
             (\A h \in DOMAIN handlers : handlers'[h] = handlers[h])]_vars
  /\ [](\A h \in DOMAIN handlers :
          handlers[h].pc \notin {"fetch", "failed"} => handlers[h].fetched # Undef)

\* Two record messages, each starting one "record" handler: the second has
\* fired, the first has not yet got its record.
C17_Witness ==
  /\ Len(handlers) = 2
  /\ handlers[1].kind = "record" /\ handlers[2].kind = "record"
  /\ AtFetch(1)
  /\ Fired(2)

\* ------------------------------------------------------------------------
\* Rejected remote calls, under SpecCache.

\* The handling of h ended with a rejection of its record or table fetch.
FetchRejected(h) == handlers[h].pc = "failed" /\ handlers[h].fetched = Undef
\* Handler h awaited the mapping request r, and r rejected.
AwaitedRejected(h) ==
  /\ handlers[h].req # 0
  /\ refreshes[handlers[h].req].status = "rejected"
\* The callback of h is queued.
CallbackQueued(h) ==
  \E i \in DOMAIN microtasks : microtasks[i].job = "callback" /\ microtasks[i].id = h

\* C18: a rejected record, table or mapping fetch propagates out of the
\* handler: the handler ends failed for good and its callback is neither
\* queued nor run; every handler that awaited a rejected mapping request gets
\* the rejection, none of them returns; and the rejection leaves the cache
\* with the value it had when the request started.
C18_RejectionPropagates ==
  /\ [](\A h \in DOMAIN handlers :
          handlers[h].pc = "failed" =>
            /\ FetchRejected(h) \/ AwaitedRejected(h)
            /\ ~CallbackQueued(h)
            /\ handlers[h].ret = Undef)
  /\ [][\A h \in DOMAIN handlers :
          handlers[h].pc = "failed" => handlers'[h] = handlers[h]]_vars
  /\ [](\A h \in DOMAIN handlers :
          AwaitedRejected(h) =>
            /\ handlers[h].pc \in {"resuming", "failed"}
            /\ ~CallbackQueued(h))
  /\ [][\A h \in DOMAIN handlers :
          (AwaitedRejected(h) /\ handlers'[h] # handlers[h]) => handlers'[h].pc = "failed"]_vars
  /\ [][\A r \in DOMAIN refreshes :
          (refreshes[r].status # "rejected" /\ refreshes'[r].status = "rejected") =>
            /\ mappingsCache = refreshes[r].before
            /\ mappingsCache' = mappingsCache]_vars
  /\ [][\A h \in DOMAIN handlers :
          (~FetchRejected(h) /\ FetchRejected(h)') =>
            UNCHANGED <<mappingsCache, microtasks>>]_vars

\* A cache populated by an earlier request, a later request that rejected,
\* the handler that awaited it failed without a callback, the cache intact.
C18_Witness ==
  /\ Len(refreshes) = 2 /\ Len(handlers) = 2
  /\ refreshes[1].status = "fulfilled" /\ refreshes[2].status = "rejected"
  /\ Truthy(mappingsCache) /\ mappingsCache = refreshes[1].val
  /\ handlers[1].pc = "done"
  /\ handlers[2].req = 2 /\ handlers[2].pc = "failed" /\ handlers[2].fetched # Undef

\* ------------------------------------------------------------------------
\* Freshness of the mapping a handler returns, under SpecCache.

\* The request whose result handler h returned was started when
\* refreshes[r].seen handlers had been delivered: after the delivery of h's
\* message exactly when that count reaches h.
StartedAfterDelivery(h) ==
  /\ handlers[h].req # 0
  /\ refreshes[handlers[h].req].seen >= h

\* C19: a handler of a message with mappingsChange set returns a mapping
\* fetched by a remote call started no earlier than the delivery of that
\* message, never one that was in flight before the message arrived.
C19_FreshRefresh ==
  \A h \in DOMAIN handlers :
    (handlers[h].mc /\ handlers[h].pc \in {"returned", "done"}) => StartedAfterDelivery(h)

\* ------------------------------------------------------------------------
\* The column declaration of ready() and the callbacks, under SpecWidget.

\* ready({columns}) has been called and _columnsToMap is still undefined:
\* mapColumnNames (line 224) would return its data unmapped.
ColumnsPending ==
  /\ readyCalled
  /\ Truthy(firstSettings)
  /\ Truthy(firstSettings.columns)
  /\ columnsToMap = Undef
\* The step on which the callback of handler h runs.
CallbackRuns(h) == handlers[h].pc = "returned" /\ handlers'[h].pc = "done"

\* Once set, _columnsToMap never changes.
ColumnsSetOnce == [][columnsToMap # Undef => columnsToMap' = columnsToMap]_vars

\* C20: the columns declared by the first ready(settings) call are in effect
\* for every callback dispatched after ready() was called: no record or
\* records callback runs while ready({columns}) has been called and
\* _columnsToMap is still undefined; and once set, _columnsToMap never changes.
C20_ColumnsInEffect ==
  /\ [][\A h \in DOMAIN handlers : CallbackRuns(h) => ~ColumnsPending]_vars
  /\ ColumnsSetOnce

====
